---- MODULE Spec2Model ----
(***************************************************************************)
(* Field mapping and workflow builder of compose (field_mapping.go,        *)
(* workflow.go): the static mapping validator and its runtime guards, the  *)
(* value converter, and the workflow builder's legality checks and edge    *)
(* assembly.                                                               *)
(***************************************************************************)
EXTENDS Integers, Sequences, FiniteSets, TLC

VARIABLES
    predecessorType,  \* validateFieldMapping: declared output type of the predecessor
    successorType,    \* validateFieldMapping: declared input type of the successor
    mappings,         \* validateFieldMapping: the edge's []*FieldMapping
    vres,             \* what validateFieldMapping returned (NotRun before the call)
    ires,             \* what the returned handler's invoke returned (NotRun before)
    convT,            \* convertTo: the type parameter T
    convMappings,     \* convertTo: its argument, a map[string]any
    cres,             \* what convertTo did (ConvNotRun before the call)
    fmInput,          \* fieldMap: the value handed to the returned function
    fmres,            \* what fieldMap's function did (FieldMapNotRun before the call)
    form,             \* the stream form in use: "fieldMap", "convert" or "guard"
    unpackOk,         \* whether the incoming streamReader unpacks to map[string]any chunks
    chunks,           \* the chunks the incoming stream will yield, in order
    recvd,            \* how many chunks have been read from the incoming stream
    out,              \* the chunks the returned stream has delivered, in order
    status,           \* the returned stream: "idle" (not built), "open", "eof", "error", "panic"
    nodeObjs,         \* every *WorkflowNode an Add*Node call returned: [key, inputs]
    nodes,            \* wf.nodes: key -> index into nodeObjs (0: no entry)
    end,              \* wf.end
    err,              \* wf.err ("" is nil)
    gg,               \* the underlying graph: [nodes (keys), edges (a bag of edges)]
    declared,         \* history: per node object, the mappings passed to its AddInput calls
    declaredEnd,      \* history: the mappings passed to all AddEnd calls, in call order
    compiled          \* what Compile did (NotCompiled before the call)

validateVars == <<predecessorType, successorType, mappings, vres, ires>>
convertVars == <<convT, convMappings, cres>>
fieldMapVars == <<fmInput, fmres>>
streamVars == <<form, unpackOk, chunks, recvd, out, status>>
workflowVars == <<nodeObjs, nodes, end, err, gg, declared, declaredEnd, compiled>>
vars == <<validateVars, convertVars, fieldMapVars, streamVars, workflowVars>>

\* ------------------------------------------------------------------ bounds
MaxMappings == 2
MaxVal == 2
MaxNodes == 2
MaxDeclared == 2
MaxChunks == 3

\* ------------------------------------------------------------------ types
\* The Go types of the model: a scalar, the empty interface, two structs, a
\* pointer to a struct, two maps, a pointer to a scalar.
\*   S = struct{ F any; G int; u int }     T = struct{ F int }
Types == {"int", "any", "S", "*S", "T", "map[string]any", "map[int]int", "*int"}

\* The field names / map keys descriptors may name ("" is the whole value).
Names == {"", "F", "G", "u"}

Kind(t) ==
    CASE t = "int" -> "int"
      [] t = "string" -> "string"
      [] t = "any" -> "interface"
      [] t \in {"S", "T"} -> "struct"
      [] t \in {"*S", "*int"} -> "ptr"
      [] t \in {"map[string]any", "map[int]int"} -> "map"

Elem(t) ==
    CASE t = "*S" -> "S"
      [] t = "*int" -> "int"
      [] t = "map[string]any" -> "any"
      [] t = "map[int]int" -> "int"

Key(t) ==
    CASE t = "map[string]any" -> "string"
      [] t = "map[int]int" -> "int"

\* reflect.Type.FieldByName on the two struct types.
HasField(t, f) ==
    \/ t = "S" /\ f \in {"F", "G", "u"}
    \/ t = "T" /\ f = "F"

IsExported(t, f) == ~(t = "S" /\ f = "u")

FieldTypeOf(t, f) ==
    CASE t = "S" /\ f = "F" -> "any"
      [] t = "S" /\ f = "G" -> "int"
      [] t = "S" /\ f = "u" -> "int"
      [] t = "T" /\ f = "F" -> "int"

\* reflect.Type.AssignableTo for a concrete dynamic type: identical types, or
\* the target is an interface the type implements (every type implements any).
AssignableTo(dyn, t) == dyn = t \/ Kind(t) = "interface"

\* ------------------------------------------------------- FieldMapping
FieldMappings == [fromNodeKey : {"pre"}, from : Names, to : Names]

RECURSIVE SeqsUpTo(_, _)
SeqsUpTo(S, n) ==
    IF n = 0 THEN {<<>>}
    ELSE LET shorter == SeqsUpTo(S, n - 1)
         IN shorter \cup {Append(s, x) : s \in {q \in shorter : Len(q) = n - 1}, x \in S}

isFromAll(ms) == \E i \in 1..Len(ms) : ms[i].from = ""

isToAll(ms) == \E i \in 1..Len(ms) : ms[i].to = ""

validateStructOrMap(t) == Kind(t) \in {"map", "ptr", "struct"}

RECURSIVE derefAll(_)
derefAll(t) == IF Kind(t) = "ptr" THEN derefAll(Elem(t)) ELSE t

\* checkAndExtractFieldType: [ok, typ]; typ is "nil" on error.
checkAndExtractFieldType(field, typ) ==
    IF field = "" THEN [ok |-> TRUE, typ |-> typ]
    ELSE IF Kind(typ) = "map"
         THEN IF Key(typ) # "string" THEN [ok |-> FALSE, typ |-> "nil"]
              ELSE [ok |-> TRUE, typ |-> Elem(typ)]
    ELSE LET st == derefAll(typ)
         IN IF Kind(st) # "struct" THEN [ok |-> FALSE, typ |-> "nil"]
            ELSE IF ~HasField(st, field) THEN [ok |-> FALSE, typ |-> "nil"]
            ELSE IF ~IsExported(st, field) THEN [ok |-> FALSE, typ |-> "nil"]
            ELSE [ok |-> TRUE, typ |-> FieldTypeOf(st, field)]

\* checkAssignable (declared elsewhere in package compose): the verdict of
\* section 4.3 on two static types.
checkAssignable(input, arg) ==
    IF input = arg THEN "assignableTypeMust"
    ELSE IF Kind(arg) = "interface" THEN "assignableTypeMust"
    ELSE IF Kind(input) = "interface" THEN "assignableTypeMay"
    ELSE "assignableTypeMustNot"

NotRun == [err |-> "notrun", handler |-> FALSE, fieldCheckers |-> {},
           successorFieldType |-> "nil"]

\* Whether the loop stores a guard for this verdict (line 403).
needsChecker(at) == at = "assignableTypeMay"

\* A validator that lets a never-assignable pairing through.
mustNot_ignored(at) == FALSE

\* Whether the verdict aborts validation (line 401).
mustNot(at) == at = "assignableTypeMustNot"

\* The for loop of validateFieldMapping, from descriptor i on.  st carries the
\* function's locals: fieldCheckers (the destination names that have a guard;
\* the guard is a closure over the local variable successorFieldType, which is
\* declared once, outside the loop) and successorFieldType itself.
RECURSIVE validateLoop(_, _, _, _, _)
validateLoop(pred, succ, ms, i, st) ==
    IF i > Len(ms) THEN st
    ELSE LET p == checkAndExtractFieldType(ms[i].from, pred)
             s == checkAndExtractFieldType(ms[i].to, succ)
         IN IF ~p.ok THEN [st EXCEPT !.err = "FieldType"]
            ELSE IF ~s.ok
                 THEN [st EXCEPT !.err = "FieldType", !.successorFieldType = "nil"]
            ELSE LET at == checkAssignable(p.typ, s.typ)
                     st1 == [st EXCEPT !.successorFieldType = s.typ]
                 IN IF mustNot(at) THEN [st1 EXCEPT !.err = "MustNot"]
                    ELSE IF needsChecker(at)
                         THEN validateLoop(pred, succ, ms, i + 1,
                                  [st1 EXCEPT !.fieldCheckers = @ \cup {ms[i].to}])
                    ELSE validateLoop(pred, succ, ms, i + 1, st1)

\* The legality checks with the successor check tied to a whole-input mapping
\* being present instead of absent.
legalityErr_succWhenToAll(pred, succ, ms) ==
    IF isFromAll(ms) /\ isToAll(ms) THEN "DegenerateMapping"
    ELSE IF isToAll(ms) /\ ~validateStructOrMap(succ) THEN "UnconstructibleSuccessor"
    ELSE IF ~isFromAll(ms) /\ ~validateStructOrMap(pred) THEN "UnconstructiblePredecessor"
    ELSE ""

\* The legality checks that open validateFieldMapping: "" when they pass.
legalityErr(pred, succ, ms) ==
    IF isFromAll(ms) /\ isToAll(ms) THEN "DegenerateMapping"
    ELSE IF ~isToAll(ms) /\ ~validateStructOrMap(succ) THEN "UnconstructibleSuccessor"
    ELSE IF ~isFromAll(ms) /\ ~validateStructOrMap(pred) THEN "UnconstructiblePredecessor"
    ELSE ""

\* A validator that never returns a handler pair.
noCheckers_always(fieldCheckers) == TRUE

\* Whether a handler pair is returned for these guards (line 420).
noCheckers(fieldCheckers) == fieldCheckers = {}

\* validateFieldMapping: err = "" is a nil error; handler says whether the
\* returned *handlerPair is non-nil.
validateFieldMapping(pred, succ, ms) ==
    LET e == legalityErr(pred, succ, ms)
        st0 == [err |-> "", handler |-> FALSE, fieldCheckers |-> {},
                successorFieldType |-> "nil"]
    IN IF e # "" THEN [st0 EXCEPT !.err = e]
       ELSE LET st == validateLoop(pred, succ, ms, 1, st0)
            IN IF st.err # "" THEN [st EXCEPT !.handler = FALSE, !.fieldCheckers = {}]
               ELSE IF noCheckers(st.fieldCheckers) THEN st
               ELSE [st EXCEPT !.handler = TRUE]

\* The guard stored under destination name k, applied to a value of dynamic
\* type dyn: reflect.TypeOf(a).AssignableTo(successorFieldType), where
\* successorFieldType is the variable the closure shares with the loop, read
\* when the guard runs (after validateFieldMapping has returned).
checkerAccepts(res, k, dyn) == AssignableTo(dyn, res.successorFieldType)

\* The dynamic types of the values handed to a handler at run time.
DynTypes == {"int", "S"}

\* The handler's invoke on a keyed mapping mValue (key -> dynamic type of the
\* value): every guarded key present in mValue is checked.
handlerInvoke(res, mValue) ==
    IF \A k \in res.fieldCheckers \cap DOMAIN mValue : checkerAccepts(res, k, mValue[k])
    THEN "ok" ELSE "err"


\* ------------------------------------------------------------- convertTo
\* A runtime value: its dynamic type and an identity.
Values == [type : DynTypes, val : 1..MaxVal]

NoValue == [type |-> "nil", val |-> 0]

\* What convertTo did: status is "ok" (nil error), "error" (error return) or
\* "panic"; whole is the value returned by the whole-input shortcut, entries
\* the (field or key, value) pairs set in the instance that was built.
ConvNotRun == [status |-> "notrun", whole |-> NoValue, entries |-> {}]

\* The type assertion v.(T): the dynamic type is T, or T is an interface the
\* value implements.
typeAssert(v, T) == AssignableTo(v.type, T)

\* checkAndExtractToMapKey: TRUE when the key and the value fit the map.
checkAndExtractToMapKey(T, toSet) ==
    /\ Kind(T) = "map"
    /\ Key(T) = "string"
    /\ AssignableTo(toSet.type, Elem(T))

\* checkAndExtractToField: TRUE when the field exists, can be set and takes
\* the value.
checkAndExtractToField(toField, T, toSet) ==
    LET output == derefAll(T)
    IN /\ Kind(output) = "struct"
       /\ HasField(output, toField)
       /\ IsExported(output, toField)
       /\ AssignableTo(toSet.type, FieldTypeOf(output, toField))

\* assignOne: [ok, whole, entries] of the destination after the assignment.
assignOne(T, dest, taken, to) ==
    IF to = ""
    THEN IF ~AssignableTo(taken.type, T) THEN [dest EXCEPT !.status = "error"]
         ELSE [dest EXCEPT !.whole = taken, !.entries = {}]
    ELSE IF Kind(T) = "map"
    THEN IF ~checkAndExtractToMapKey(T, taken) THEN [dest EXCEPT !.status = "error"]
         ELSE [dest EXCEPT !.entries = {e \in @ : e[1] # to} \cup {<<to, taken>>}]
    ELSE IF ~checkAndExtractToField(to, T, taken) THEN [dest EXCEPT !.status = "error"]
         ELSE [dest EXCEPT !.entries = {e \in @ : e[1] # to} \cup {<<to, taken>>}]

\* The second loop of convertTo over field2Values, visiting the keys in the
\* given order (Go leaves the order of a map range open).  Every list of
\* field2Values has exactly one value, the map's entry, so mergeValues is
\* never called.
RECURSIVE assignAll(_, _, _, _, _)
assignAll(T, m, order, i, t) ==
    IF i > Len(order) THEN t
    ELSE LET r == assignOne(T, t, m[order[i]], order[i])
         IN IF r.status = "error"
            THEN [status |-> "panic", whole |-> NoValue, entries |-> {}]
            ELSE assignAll(T, m, order, i + 1, r)

\* Whether convertTo takes the whole-input return (line 114).
hasEntireInput(m) == "" \in DOMAIN m

convertTo(T, m, order) ==
    IF hasEntireInput(m)
    THEN IF typeAssert(m[""], T)
         THEN [status |-> "ok", whole |-> m[""], entries |-> {}]
         ELSE [status |-> "panic", whole |-> NoValue, entries |-> {}]
    ELSE assignAll(T, m, order, 1, [status |-> "ok", whole |-> NoValue, entries |-> {}])

\* The orders in which a range over a map with these keys can visit them.
Orders(K) == {o \in [1..Cardinality(K) -> K] : \A k \in K : \E i \in DOMAIN o : o[i] = k}

KeyedMappings == UNION {[K -> Values] : K \in SUBSET Names}

\* -------------------------------------------------------------- fieldMap
\* The values a predecessor can emit: type is the dynamic type, val an
\* identity, parts the values held by the fields (of S) or under the keys (of
\* a map[string]any).
IntValues == {v \in Values : v.type = "int"}

Inputs ==
    {[type |-> "int", val |-> n, parts |-> <<>>] : n \in 1..MaxVal}
    \cup {[type |-> "*int", val |-> n, parts |-> <<>>] : n \in 1..MaxVal}
    \cup {[type |-> "map[int]int", val |-> 1, parts |-> <<>>]}
    \cup {[type |-> t, val |-> 1,
           parts |-> [k \in {"F", "G", "u"} |->
                        IF k = "F" THEN f ELSE IF k = "G" THEN g
                        ELSE [type |-> "int", val |-> 1]]] :
            t \in {"S", "*S"}, f \in IntValues, g \in IntValues}
    \cup {[type |-> "map[string]any", val |-> 1, parts |-> p] :
            p \in UNION {[K -> IntValues] : K \in SUBSET {"F", "G"}}}

\* checkAndExtractFromMapKey: [status, taken].
checkAndExtractFromMapKey(fromMapKey, input) ==
    IF Key(input.type) # "string" THEN [status |-> "error", taken |-> NoValue]
    ELSE IF fromMapKey \notin DOMAIN input.parts
         THEN [status |-> "error", taken |-> NoValue]
    ELSE [status |-> "ok", taken |-> input.parts[fromMapKey]]

\* checkAndExtractFromField on a struct value of type st.
checkAndExtractFromField(fromField, st, input) ==
    IF ~HasField(st, fromField) THEN [status |-> "error", taken |-> NoValue]
    ELSE IF ~IsExported(st, fromField) THEN [status |-> "error", taken |-> NoValue]
    ELSE [status |-> "ok", taken |-> input.parts[fromField]]

\* takeOne: status is "ok", "error" (error return) or "panic" (FieldByName on
\* the non-struct value a pointer leads to).
takeOne(input, from) ==
    IF from = "" THEN [status |-> "ok", taken |-> input]
    ELSE IF Kind(input.type) = "map" THEN checkAndExtractFromMapKey(from, input)
    ELSE IF Kind(input.type) = "ptr"
         THEN IF Kind(Elem(input.type)) # "struct"
              THEN [status |-> "panic", taken |-> NoValue]
              ELSE checkAndExtractFromField(from, Elem(input.type), input)
    ELSE IF Kind(input.type) = "struct"
         THEN checkAndExtractFromField(from, input.type, input)
    ELSE [status |-> "error", taken |-> NoValue]

\* result[to] = taken on a Go map: the key's earlier value, if any, is replaced.
setKey(result, to, taken) ==
    [k \in DOMAIN result \cup {to} |-> IF k = to THEN taken ELSE result[k]]

\* The loop of fieldMap's function from descriptor i on; result is the map
\* built so far.
RECURSIVE fieldMapLoop(_, _, _, _)
fieldMapLoop(ms, input, i, result) ==
    IF i > Len(ms) THEN [status |-> "ok", result |-> result]
    ELSE LET t == takeOne(input, ms[i].from)
         IN IF t.status # "ok" THEN [status |-> "panic", result |-> <<>>]
            ELSE fieldMapLoop(ms, input, i + 1, setKey(result, ms[i].to, t.taken))

\* fieldMap(mappings)(input): status is "ok" (nil error) or "panic".
fieldMap(ms, input) == fieldMapLoop(ms, input, 1, <<>>)

FieldMapNotRun == [status |-> "notrun", result |-> <<>>]

FieldMapIdle ==
    /\ fmInput = [type |-> "int", val |-> 1, parts |-> <<>>]
    /\ fmres = FieldMapNotRun

\* ---------------------------------------------------------- stream forms
Forms == {"fieldMap", "convert", "guard"}

\* The chunks of a stream of map[string]any values with at most the key "F".
StreamInputs == {i \in Inputs : i.type = "map[string]any" /\ DOMAIN i.parts \subseteq {"F"}}

\* The keyed mappings arriving at a stream converter: the whole input, or at
\* most the key "F".
StreamKeyed == UNION {[K -> IntValues] : K \in {{}, {""}, {"F"}}}

\* The keyed mappings arriving at a guard for mapping set ms: one entry per
\* destination name.
GuardChunks(ms) == [{ms[i].to : i \in 1..Len(ms)} -> {v \in Values : v.val = 1}]

\* Mapping sets of one descriptor.
SingleMappings == {<<m>> : m \in FieldMappings}

\* The function streamFieldMap hands to StreamReaderWithConvert, on one chunk.
streamFieldMap(ms, chunk) ==
    LET r == fieldMap(ms, chunk)
    IN [status |-> r.status, value |-> r.result]

\* The function buildStreamFieldMappingConverter hands to
\* StreamReaderWithConvert, on one chunk.
buildStreamFieldMappingConverter(T, chunk, order) ==
    LET r == convertTo(T, chunk, order)
    IN [status |-> r.status, value |-> [whole |-> r.whole, entries |-> r.entries]]

\* The handler's checker, which its transform hands to
\* StreamReaderWithConvert, on one chunk: the chunk itself or an error.
transform(res, chunk) ==
    IF handlerInvoke(res, [k \in DOMAIN chunk |-> chunk[k].type]) = "ok"
    THEN [status |-> "ok", value |-> chunk]
    ELSE [status |-> "error", value |-> <<>>]

\* The per-chunk function of the form in use.
convert(f, ms, T, res, chunk, order) ==
    CASE f = "fieldMap" -> streamFieldMap(ms, chunk)
      [] f = "convert" -> buildStreamFieldMappingConverter(T, chunk, order)
      [] f = "guard" -> transform(res, chunk)

\* The orders a range over the chunk's keys can take (convertTo only).
ChunkOrders(f, chunk) == IF f = "convert" THEN Orders(DOMAIN chunk) ELSE {<<>>}

StreamIdle ==
    /\ form = "fieldMap"
    /\ unpackOk = TRUE
    /\ chunks = <<>>
    /\ recvd = 0
    /\ out = <<>>
    /\ status = "idle"

ConvertIdle ==
    /\ convT = "int"
    /\ convMappings = <<>>
    /\ cres = ConvNotRun

ValidateIdle ==
    /\ predecessorType = "int"
    /\ successorType = "int"
    /\ mappings = <<>>
    /\ vres = NotRun
    /\ ires = "notrun"

\* -------------------------------------------------------------- workflow
\* Node keys a workflow registers, and the keys mappings name as their source.
NodeKeys == {"a", "b"}
FromNodeKeys == {"start", "a"}
END == "end"

\* Mapping (workflow.go).
Mappings == [fromNodeKey : FromNodeKeys, from : {"", "f"}, to : {"", "y", "z"}]

empty(m) == m.from = "" /\ m.to = ""

NotCompiled == [done |-> FALSE, err |-> "", processed |-> {}]

EmptyBag == [e \in {} |-> 0]

AddToBag(B, e) ==
    IF e \in DOMAIN B THEN [B EXCEPT ![e] = @ + 1]
    ELSE [x \in DOMAIN B \cup {e} |-> IF x = e THEN 1 ELSE B[x]]

WorkflowInit ==
    /\ nodeObjs = <<>>
    /\ nodes = [k \in NodeKeys |-> 0]
    /\ end = <<>>
    /\ err = ""
    /\ gg = [nodes |-> {}, edges |-> EmptyBag]
    /\ declared = <<>>
    /\ declaredEnd = <<>>
    /\ compiled = NotCompiled

WorkflowIdle == WorkflowInit

\* The error the graph returns when it rejects the node with this key.
addNodeErr(key) == IF key = "a" THEN "addNode a" ELSE "addNode b"

\* The graph's Add*Node (graph code, outside these files): the node is added
\* unless the graph rejects it; a key the graph already has is rejected.
ggAddNode(g, key, accepted) ==
    IF accepted /\ key \notin g.nodes
    THEN [ok |-> TRUE, err |-> "", g |-> [g EXCEPT !.nodes = @ \cup {key}]]
    ELSE [ok |-> FALSE, err |-> addNodeErr(key), g |-> g]

\* The graph's AddEdge / addEdgeWithMappings (graph code, outside these
\* files): the edge is recorded unless the graph rejects its source node.
ggAddEdge(g, e, rejected) ==
    IF e.from \in rejected THEN [ok |-> FALSE, g |-> g]
    ELSE [ok |-> TRUE, g |-> [g EXCEPT !.edges = AddToBag(@, e)]]

\* The edge AddEdge(from, to) records, and the one addEdgeWithMappings does.
PlainEdge(from, to) == [from |-> from, to |-> to, plain |-> TRUE, mappings |-> <<>>]
MappingEdge(from, to, ms) == [from |-> from, to |-> to, plain |-> FALSE, mappings |-> ms]

\* n.inputs = append(n.inputs, inputs...)
appendInputs(inputs, ms) == inputs \o ms

\* wf.end = inputs
setEnd(old, ms) == ms

\* A legality check that skips the no-input test.
hasNoInput_never(inputs) == FALSE

\* len(node.inputs) == 0, len(wf.end) == 0
hasNoInput(inputs) == Len(inputs) = 0

\* len(input.to) == 0 && len(node.inputs) > 1
claimsEntireInput(inputs, i) == inputs[i].to = "" /\ Len(inputs) > 1

\* _, ok := toSet[input.to]: an earlier input of the list has the same `to`.
alreadyMapped(inputs, i) == \E j \in 1..(i - 1) : inputs[j].to = inputs[i].to

\* The first loop over a destination's inputs: "" when every input passes.
RECURSIVE checkInputs(_, _)
checkInputs(inputs, i) ==
    IF i > Len(inputs) THEN ""
    ELSE IF claimsEntireInput(inputs, i) THEN "toEntireInput"
    ELSE IF alreadyMapped(inputs, i) THEN "sameField"
    ELSE checkInputs(inputs, i + 1)

\* fromNode2Mappings[src]: the inputs of one source node, in list order.
fromNode2Mappings(inputs, src) == SelectSeq(inputs, LAMBDA m : m.fromNodeKey = src)

\* An emission test that looks only at the destination side.
isPlain_toOnly(group) == group[1].to = ""

\* mappings[0].empty()
isPlain(group) == empty(group[1])

\* The edge emitted for one group.
edgeFor(src, to, group) ==
    IF isPlain(group) THEN PlainEdge(src, to) ELSE MappingEdge(src, to, group)

\* The loop over fromNode2Mappings of one destination; srcOrder is the order
\* in which the range visits the sources.  st = [err, g].
RECURSIVE emitEdges(_, _, _, _, _, _)
emitEdges(inputs, to, srcOrder, i, rejected, st) ==
    IF i > Len(srcOrder) THEN st
    ELSE LET group == fromNode2Mappings(inputs, srcOrder[i])
         IN IF Len(group) = 0
            THEN emitEdges(inputs, to, srcOrder, i + 1, rejected, st)
            ELSE LET r == ggAddEdge(st.g, edgeFor(srcOrder[i], to, group), rejected)
                 IN IF ~r.ok THEN [st EXCEPT !.err = "graph"]
                    ELSE emitEdges(inputs, to, srcOrder, i + 1, rejected,
                                   [st EXCEPT !.g = r.g])

\* The legality checks and the edge emission of one destination.
\* st = [err, g, processed].
addEdgesTo(inputs, to, srcOrder, rejected, st) ==
    IF hasNoInput(inputs) THEN [st EXCEPT !.err = "noInput"]
    ELSE LET e == checkInputs(inputs, 1)
         IN IF e # "" THEN [st EXCEPT !.err = e]
            ELSE LET r == emitEdges(inputs, to, srcOrder, 1, rejected,
                                    [err |-> "", g |-> st.g])
                 IN IF r.err # "" THEN [st EXCEPT !.err = r.err, !.g = r.g]
                    ELSE [st EXCEPT !.g = r.g, !.processed = @ \cup {to}]

\* The loop of addEdgesWithMapping over wf.nodes, in the order nodeOrder.
RECURSIVE addEdgesNodes(_, _, _, _, _)
addEdgesNodes(nodeOrder, i, srcOrder, rejected, st) ==
    IF i > Len(nodeOrder) THEN st
    ELSE LET node == nodeObjs[nodes[nodeOrder[i]]]
             r == addEdgesTo(node.inputs, node.key, srcOrder, rejected, st)
         IN IF r.err # "" THEN r
            ELSE addEdgesNodes(nodeOrder, i + 1, srcOrder, rejected, r)

addEdgesWithMapping(nodeOrder, srcOrder, rejected) ==
    LET st0 == [err |-> "", g |-> gg, processed |-> {}]
        r == addEdgesNodes(nodeOrder, 1, srcOrder, rejected, st0)
    IN IF r.err # "" THEN r
       ELSE addEdgesTo(end, END, srcOrder, rejected, r)

Registered == {k \in NodeKeys : nodes[k] # 0}

DeclaredTotal ==
    LET RECURSIVE sum(_)
        sum(i) == IF i = 0 THEN 0 ELSE Len(declared[i]) + sum(i - 1)
    IN sum(Len(declared)) + Len(declaredEnd)

Args == SeqsUpTo(Mappings, 2)

\* An Add*Node that goes on after an earlier failure.
builderFailed_never(e) == FALSE

\* Whether Add*Node returns before registering the node (wf.err != nil).
builderFailed(e) == e # ""

\* Add*Node (the ten methods share this body): the node object is returned in
\* every case; key: the node's key; accepted: whether the graph takes it.
AddNode ==
    /\ ~compiled.done
    /\ Len(nodeObjs) < MaxNodes
    /\ \E key \in NodeKeys, accepted \in BOOLEAN :
        /\ nodeObjs' = Append(nodeObjs, [key |-> key, inputs |-> <<>>])
        /\ declared' = Append(declared, <<>>)
        /\ IF builderFailed(err)
           THEN UNCHANGED <<nodes, gg, err>>
           ELSE LET r == ggAddNode(gg, key, accepted)
                IN /\ nodes' = [nodes EXCEPT ![key] = Len(nodeObjs) + 1]
                   /\ gg' = r.g
                   /\ err' = IF r.ok THEN err ELSE r.err
    /\ UNCHANGED <<end, declaredEnd, compiled>>
    /\ UNCHANGED <<validateVars, convertVars, fieldMapVars, streamVars>>

AddInput ==
    /\ ~compiled.done
    /\ \E h \in 1..Len(nodeObjs), ms \in Args :
        /\ DeclaredTotal + Len(ms) <= MaxDeclared
        /\ nodeObjs' = [nodeObjs EXCEPT ![h].inputs = appendInputs(@, ms)]
        /\ declared' = [declared EXCEPT ![h] = @ \o ms]
    /\ UNCHANGED <<nodes, end, err, gg, declaredEnd, compiled>>
    /\ UNCHANGED <<validateVars, convertVars, fieldMapVars, streamVars>>

AddEnd ==
    /\ ~compiled.done
    /\ \E ms \in Args :
        /\ DeclaredTotal + Len(ms) <= MaxDeclared
        /\ end' = setEnd(end, ms)
        /\ declaredEnd' = declaredEnd \o ms
    /\ UNCHANGED <<nodeObjs, nodes, err, gg, declared, compiled>>
    /\ UNCHANGED <<validateVars, convertVars, fieldMapVars, streamVars>>

\* Compile.  mode: the trigger mode the options ask for; nodeOrder, srcOrder:
\* the orders of the two map ranges; rejected: the source node whose edges
\* the graph rejects, if any (the first rejection ends the call, so one is
\* enough); ggOk: whether the graph's own Compile succeeds.
Compile ==
    /\ ~compiled.done
    /\ \E mode \in {"AllPredecessor", "AnyPredecessor"} :
        IF err # ""
        THEN /\ compiled' = [done |-> TRUE, err |-> err, processed |-> {}]
             /\ UNCHANGED gg
        ELSE IF mode = "AnyPredecessor"
        THEN /\ compiled' = [done |-> TRUE, err |-> "anyPredecessor", processed |-> {}]
             /\ UNCHANGED gg
        ELSE \E nodeOrder \in Orders(Registered), srcOrder \in Orders(FromNodeKeys),
                rejected \in {{}} \cup {{x} : x \in FromNodeKeys} :
               LET r == addEdgesWithMapping(nodeOrder, srcOrder, rejected)
               IN /\ gg' = r.g
                  /\ \E ggOk \in BOOLEAN :
                       compiled' = [done |-> TRUE,
                                    err |-> IF r.err # "" THEN r.err
                                            ELSE IF ggOk THEN "" ELSE "ggCompile",
                                    processed |-> r.processed]
    /\ UNCHANGED <<nodeObjs, nodes, end, err, declared, declaredEnd>>
    /\ UNCHANGED <<validateVars, convertVars, fieldMapVars, streamVars>>

InitWorkflow ==
    WorkflowInit /\ ValidateIdle /\ ConvertIdle /\ FieldMapIdle /\ StreamIdle

NextWorkflow == AddNode \/ AddInput \/ AddEnd \/ Compile

SpecWorkflow == InitWorkflow /\ [][NextWorkflow]_vars

InitConvert ==
    /\ convT \in Types
    /\ convMappings \in KeyedMappings
    /\ cres = ConvNotRun
    /\ ValidateIdle
    /\ FieldMapIdle
    /\ StreamIdle
    /\ WorkflowIdle

Convert ==
    /\ cres = ConvNotRun
    /\ \E order \in Orders(DOMAIN convMappings) :
           cres' = convertTo(convT, convMappings, order)
    /\ UNCHANGED <<convT, convMappings>>
    /\ UNCHANGED <<validateVars, fieldMapVars, streamVars, workflowVars>>

NextConvert == Convert

SpecConvert == InitConvert /\ [][NextConvert]_vars

\* The run-time side of one edge: the predecessor's output fmInput goes through
\* the function fieldMap returned for the edge's mapping set.
InitFieldMap ==
    /\ fmInput \in Inputs
    /\ mappings \in SeqsUpTo(FieldMappings, MaxMappings)
    /\ predecessorType = fmInput.type
    /\ successorType = "int"
    /\ vres = NotRun
    /\ ires = "notrun"
    /\ fmres = FieldMapNotRun
    /\ ConvertIdle
    /\ StreamIdle
    /\ WorkflowIdle

FieldMap ==
    /\ fmres = FieldMapNotRun
    /\ fmres' = fieldMap(mappings, fmInput)
    /\ UNCHANGED fmInput
    /\ UNCHANGED <<validateVars, convertVars, streamVars, workflowVars>>

NextFieldMap == FieldMap

SpecFieldMap == InitFieldMap /\ [][NextFieldMap]_vars

\* One stream form over one incoming stream.  The form's parameters are fixed
\* when the edge is built: the mapping set (fieldMap), the successor's type
\* (converter), the validated handler pair (guard).
InitStream ==
    /\ form \in Forms
    /\ unpackOk \in IF form = "convert" THEN BOOLEAN ELSE {TRUE}
    /\ mappings \in IF form = "convert" THEN {<<>>} ELSE SingleMappings
    /\ predecessorType \in IF form = "guard" THEN Types ELSE {"int"}
    /\ successorType \in IF form = "guard" THEN Types ELSE {"int"}
    /\ vres = IF form = "guard"
              THEN validateFieldMapping(predecessorType, successorType, mappings)
              ELSE NotRun
    /\ form = "guard" => vres.handler
    /\ ires = "notrun"
    /\ convT \in IF form = "convert" THEN Types ELSE {"int"}
    /\ convMappings = <<>>
    /\ cres = ConvNotRun
    /\ chunks \in SeqsUpTo(CASE form = "fieldMap" -> StreamInputs
                             [] form = "convert" -> StreamKeyed
                             [] form = "guard" -> GuardChunks(mappings),
                           MaxChunks)
    /\ recvd = 0
    /\ out = <<>>
    /\ status = "idle"
    /\ FieldMapIdle
    /\ WorkflowIdle

\* The stream function is called on the incoming stream and returns the
\* wrapped stream; the converter first unpacks the incoming stream and panics
\* when its chunks are not map[string]any.
Transform ==
    /\ status = "idle"
    /\ status' = IF form = "convert" /\ ~unpackOk THEN "panic" ELSE "open"
    /\ UNCHANGED <<form, unpackOk, chunks, recvd, out>>
    /\ UNCHANGED <<validateVars, convertVars, fieldMapVars, workflowVars>>

\* The consumer reads the wrapped stream once (StreamReaderWithConvert's
\* reader, section 4.6): the next incoming chunk is read and converted; the
\* result is delivered, or the failure ends the stream; at the end of the
\* incoming stream the end is forwarded.  A panic of the per-chunk function
\* unwinds through the read into the consumer.
Recv ==
    /\ status = "open"
    /\ IF recvd = Len(chunks)
       THEN /\ status' = "eof"
            /\ UNCHANGED <<recvd, out>>
       ELSE \E order \in ChunkOrders(form, chunks[recvd + 1]) :
              LET r == convert(form, mappings, convT, vres, chunks[recvd + 1], order)
              IN /\ recvd' = recvd + 1
                 /\ out' = IF r.status = "ok" THEN Append(out, r.value) ELSE out
                 /\ status' = IF r.status = "ok" THEN "open" ELSE r.status
    /\ UNCHANGED <<form, unpackOk, chunks>>
    /\ UNCHANGED <<validateVars, convertVars, fieldMapVars, workflowVars>>

NextStream == Transform \/ Recv

SpecStream == InitStream /\ [][NextStream]_vars

\* ---------------------------------------------------------------- actions
InitValidate ==
    /\ predecessorType \in Types
    /\ successorType \in Types
    /\ mappings \in SeqsUpTo(FieldMappings, MaxMappings)
    /\ vres = NotRun
    /\ ires = "notrun"
    /\ ConvertIdle
    /\ FieldMapIdle
    /\ StreamIdle
    /\ WorkflowIdle

Validate ==
    /\ vres = NotRun
    /\ vres' = validateFieldMapping(predecessorType, successorType, mappings)
    /\ UNCHANGED <<predecessorType, successorType, mappings, ires>>
    /\ UNCHANGED <<convertVars, fieldMapVars, streamVars, workflowVars>>

\* The graph runs the handler on the keyed mapping fieldMap produced for this
\* edge: one entry per destination name of the mapping set.
InvokeHandler ==
    /\ vres # NotRun /\ vres.err = "" /\ vres.handler
    /\ ires = "notrun"
    /\ \E mValue \in [{mappings[i].to : i \in 1..Len(mappings)} -> DynTypes] :
           ires' = handlerInvoke(vres, mValue)
    /\ UNCHANGED <<predecessorType, successorType, mappings, vres>>
    /\ UNCHANGED <<convertVars, fieldMapVars, streamVars, workflowVars>>

NextValidate == Validate \/ InvokeHandler

SpecValidate == InitValidate /\ [][NextValidate]_vars

\* ------------------------------------------------ properties: validator
Validated == vres # NotRun

\* The static type of the destination field a descriptor names.
ownDestType(k) == checkAndExtractFieldType(k, successorType).typ

\* The concrete (non-interface) types a runtime value can have.
ConcreteTypes == {t \in Types : Kind(t) # "interface"}

\* C1: after a successful validation, the guard stored for a destination
\* field accepts a value exactly when the value's dynamic type is assignable
\* to the static type of that same destination field.
C1_GuardChecksOwnDestType ==
    (Validated /\ vres.err = "") =>
        \A k \in vres.fieldCheckers : \A dyn \in ConcreteTypes :
            checkerAccepts(vres, k, dyn) <=> AssignableTo(dyn, ownDestType(k))

\* The successor types from which an input can be built field by field: a
\* struct, a pointer to a struct, a string-keyed map.
IsStructPtrOrStringMap(t) ==
    \/ Kind(t) = "struct"
    \/ Kind(t) = "ptr" /\ Kind(Elem(t)) = "struct"
    \/ Kind(t) = "map" /\ Key(t) = "string"

SomeToEmpty == \E i \in 1..Len(mappings) : mappings[i].to = ""

\* C2 (as stated): validation fails whenever some descriptor has an empty
\* `to` and the successor type is neither a struct, a pointer to a struct,
\* nor a string-keyed map.
C2_FailsWhenToEmptyAndOpaque ==
    (Validated /\ SomeToEmpty /\ ~IsStructPtrOrStringMap(successorType))
        => vres.err # ""

\* C2 (amended): when NO descriptor has an empty `to`, validation fails with
\* UnconstructibleSuccessor if the successor type is neither a struct, a
\* pointer nor a map, and a non-empty such mapping set fails (with some static
\* error) whenever the successor type is neither a struct, a pointer to a
\* struct, nor a string-keyed map.
C2_FailsWhenNoToEmptyAndOpaque ==
    (Validated /\ ~SomeToEmpty) =>
        /\ Kind(successorType) \notin {"struct", "ptr", "map"}
               => vres.err = "UnconstructibleSuccessor"
        /\ (Len(mappings) > 0 /\ ~IsStructPtrOrStringMap(successorType))
               => vres.err # ""

C2_Witness ==
    /\ Validated /\ ~SomeToEmpty /\ Len(mappings) > 0
    /\ successorType = "int"
    /\ vres.err = "UnconstructibleSuccessor"

\* The verdict on descriptor i of ms: "unresolved" when a field type does not
\* resolve, else the assignability class of the two field types.
verdict(pred, succ, ms, i) ==
    LET p == checkAndExtractFieldType(ms[i].from, pred)
        s == checkAndExtractFieldType(ms[i].to, succ)
    IN IF ~p.ok \/ ~s.ok THEN "unresolved" ELSE checkAssignable(p.typ, s.typ)

Verdicts == {verdict(predecessorType, successorType, mappings, i) : i \in 1..Len(mappings)}

\* The shape checks: the mapping set is not whole-to-whole, both ends can be
\* taken apart where a field is named, and every named field resolves.
ShapeOK ==
    /\ ~((\E i \in 1..Len(mappings) : mappings[i].from = "") /\ SomeToEmpty)
    /\ SomeToEmpty \/ Kind(successorType) \in {"struct", "ptr", "map"}
    /\ (\E i \in 1..Len(mappings) : mappings[i].from = "")
           \/ Kind(predecessorType) \in {"struct", "ptr", "map"}
    /\ "unresolved" \notin Verdicts

\* C8: success without a handler pair exactly when the shape checks pass and
\* every pairing is always-assignable; success with a handler pair exactly
\* when the shape checks pass, no pairing is never-assignable and at least one
\* is conditional.
C8_HandlerIffConditional ==
    Validated =>
        /\ (vres.err = "" /\ ~vres.handler)
               <=> (ShapeOK /\ Verdicts \subseteq {"assignableTypeMust"})
        /\ (vres.err = "" /\ vres.handler)
               <=> (/\ ShapeOK
                    /\ "assignableTypeMustNot" \notin Verdicts
                    /\ "assignableTypeMay" \in Verdicts)

C8_Witness ==
    /\ Validated /\ vres.err = "" /\ vres.handler
    /\ Verdicts = {"assignableTypeMust", "assignableTypeMay"}

\* Every reordering of a mapping set.
Reorderings(ms) ==
    {[i \in 1..Len(ms) |-> ms[f[i]]] : f \in Permutations(1..Len(ms))}

\* C9: a mapping set with a never-assignable pairing fails validation, and so
\* does every reordering of it.
C9_NeverFailsInAnyOrder ==
    (Validated /\ "assignableTypeMustNot" \in Verdicts) =>
        /\ vres.err # ""
        /\ \A ms \in Reorderings(mappings) :
               validateFieldMapping(predecessorType, successorType, ms).err # ""

C9_Witness ==
    /\ Validated /\ Len(mappings) = 2 /\ vres.err = "MustNot"
    /\ verdict(predecessorType, successorType, mappings, 1) = "assignableTypeMay"
    /\ verdict(predecessorType, successorType, mappings, 2) = "assignableTypeMustNot"

\* ------------------------------------------------ properties: converter
Converted == cres # ConvNotRun

\* C10: a call of convertTo that does not fail reflects every entry of the
\* keyed mapping in its result (the empty-key entry as the whole result, any
\* other entry under the field or key it names), and the whole-input return
\* is taken only when the empty-key entry is the only entry.
C10_NoEntryDropped ==
    (Converted /\ cres.status = "ok") =>
        /\ \A k \in DOMAIN convMappings :
               IF k = "" THEN cres.whole = convMappings[k]
               ELSE <<k, convMappings[k]>> \in cres.entries
        /\ cres.whole # NoValue => DOMAIN convMappings = {""}

\* ------------------------------------------------- properties: workflow
\* The mappings declared on a registered node: everything passed to the
\* AddInput calls on the node object wf.nodes holds for the key.
declaredOn(k) == declared[nodes[k]]

CompileFailed == compiled.err # ""

\* Two mappings of the list target the same non-empty destination field.
SameFieldTwice(list) ==
    \E i, j \in 1..Len(list) : i < j /\ list[i].to = list[j].to /\ list[i].to # ""

\* C3: compilation fails whenever two mappings declared on the same node, or
\* on END, target the same non-empty destination field.
C3_DuplicateDestinationFails ==
    (compiled.done /\ (\/ \E k \in Registered : SameFieldTwice(declaredOn(k))
                       \/ SameFieldTwice(declaredEnd)))
        => CompileFailed

\* A mapping of the list claims the entire input and is not alone.
EntireInputNotAlone(list) ==
    Len(list) > 1 /\ \E i \in 1..Len(list) : list[i].to = ""

\* C4: compilation fails whenever a node, or END, has a mapping with empty
\* `to` and more than one mapping in total.
C4_EntireInputMustBeAlone ==
    (compiled.done /\ (\/ \E k \in Registered : EntireInputNotAlone(declaredOn(k))
                       \/ EntireInputNotAlone(declaredEnd)))
        => CompileFailed

\* C5: compilation fails whenever a registered node has no declared input
\* mapping, or END has none, whatever the other nodes declare and in whatever
\* order the nodes are visited.
C5_NoInputFails ==
    (compiled.done /\ (\/ \E k \in Registered : Len(declaredOn(k)) = 0
                       \/ Len(declaredEnd) = 0))
        => CompileFailed

\* A correctly declared node was visited and given its edges before the walk
\* reached a node without inputs.
C5_Witness ==
    /\ compiled.done /\ compiled.err = "noInput"
    /\ \E k \in Registered : Len(declaredOn(k)) = 0
    /\ \E k \in Registered : k \in compiled.processed /\ Len(declaredOn(k)) > 0

\* The mapping list the legality checks ran on for a destination.
checkedList(d) == IF d = END THEN end ELSE nodeObjs[nodes[d]].inputs

\* The source-node group of a list: its mappings from src, in list order.
RECURSIVE groupOf(_, _)
groupOf(list, src) ==
    IF list = <<>> THEN <<>>
    ELSE IF Head(list).fromNodeKey = src THEN <<Head(list)>> \o groupOf(Tail(list), src)
    ELSE groupOf(Tail(list), src)

\* The edge a group must produce: a plain edge exactly when the group is one
\* descriptor with `from` and `to` both empty, else an edge carrying the group.
expectedEdge(src, d, group) ==
    IF Len(group) = 1 /\ group[1].from = "" /\ group[1].to = ""
    THEN [from |-> src, to |-> d, plain |-> TRUE, mappings |-> <<>>]
    ELSE [from |-> src, to |-> d, plain |-> FALSE, mappings |-> group]

edgesBetween(src, d) == {e \in DOMAIN gg.edges : e.from = src /\ e.to = d}

\* C6: for every destination (node or END) that passed the legality checks
\* and every source-node group of the list they ran on, the graph received
\* exactly one edge: the plain edge if the group is a single empty/empty
\* descriptor, else the field-mapping edge carrying the group's descriptors in
\* order; a compile whose edge assembly did not fail has done so for every
\* registered node and END, and no other edge is ever in the graph.
C6_OneEdgePerGroup ==
    compiled.done =>
        /\ \A d \in compiled.processed : \A src \in FromNodeKeys :
               LET group == groupOf(checkedList(d), src)
               IN IF group = <<>> THEN edgesBetween(src, d) = {}
                  ELSE /\ edgesBetween(src, d) = {expectedEdge(src, d, group)}
                       /\ gg.edges[expectedEdge(src, d, group)] = 1
        /\ compiled.err \in {"", "ggCompile"}
               => compiled.processed = Registered \cup {END}
        /\ \A e \in DOMAIN gg.edges :
               /\ gg.edges[e] = 1
               /\ e.to \in Registered \cup {END}
               /\ e = expectedEdge(e.from, e.to, groupOf(checkedList(e.to), e.from))

C6_Witness ==
    /\ compiled.done /\ compiled.err = ""
    /\ END \in compiled.processed
    /\ \E e \in DOMAIN gg.edges : e.to = END /\ ~e.plain /\ Len(e.mappings) = 2

\* C7: the list compilation checks for a node is the concatenation of the
\* mappings passed to all AddInput calls on it, and the list it checks for END
\* is the concatenation of the mappings passed to all AddEnd calls.
C7_DeclarationsAccumulate ==
    /\ \A h \in 1..Len(nodeObjs) : nodeObjs[h].inputs = declared[h]
    /\ end = declaredEnd

\* ------------------------------------------------- properties: fieldMap
FieldMapped == fmres # FieldMapNotRun

\* Whether the static validator lets the mapping set through for the input's
\* type and some successor type.
PassesValidation ==
    \E succ \in Types : validateFieldMapping(fmInput.type, succ, mappings).err = ""

\* C11: after fieldMap succeeds, for every descriptor d of the mapping set the
\* value extracted from the input at d.from is retained under d.to in the
\* result; no descriptor's value is replaced by a later descriptor's value.
C11_EveryExtractedValueRetained ==
    (FieldMapped /\ fmres.status = "ok" /\ PassesValidation) =>
        \A i \in 1..Len(mappings) :
            /\ mappings[i].to \in DOMAIN fmres.result
            /\ fmres.result[mappings[i].to] = takeOne(fmInput, mappings[i].from).taken

\* --------------------------------------------------- properties: streams
\* The value-level function of the form in use applied to chunk i: the results
\* it can give (one per visiting order of the chunk's keys).
valueLevel(i) ==
    CASE form = "fieldMap" ->
             {LET r == fieldMap(mappings, chunks[i])
              IN [status |-> r.status, value |-> r.result]}
      [] form = "convert" ->
             {LET r == convertTo(convT, chunks[i], o)
              IN [status |-> r.status, value |-> [whole |-> r.whole, entries |-> r.entries]] :
                o \in Orders(DOMAIN chunks[i])}
      [] form = "guard" ->
             {IF handlerInvoke(vres, [k \in DOMAIN chunks[i] |-> chunks[i][k].type]) = "ok"
              THEN [status |-> "ok", value |-> chunks[i]]
              ELSE [status |-> "error", value |-> <<>>]}

\* Output chunk i is the value-level function applied to input chunk i, and
\* no output chunk exists before its input chunk was read.
DeliveredInOrder ==
    /\ Len(out) <= recvd
    /\ recvd <= Len(chunks)
    /\ \A i \in 1..Len(out) : [status |-> "ok", value |-> out[i]] \in valueLevel(i)

\* The end of the sequence is delivered after every chunk was converted.
EndAfterAll == status = "eof" => (recvd = Len(chunks) /\ Len(out) = Len(chunks))

\* A chunk was read and its application failed.
ChunkFailed == recvd > Len(out)

\* C12: the stream forms deliver, for n chunks that convert, n output chunks,
\* the i-th being the value-level function applied to the i-th input chunk, in
\* order, then the end of the sequence; no output chunk is produced before its
\* input chunk was read; a chunk whose application fails ends the sequence
\* with an error and leaves the delivered chunks as they were.
C12_PerChunkInOrderFailureIsError ==
    /\ DeliveredInOrder
    /\ EndAfterAll
    /\ ChunkFailed => status = "error"

\* ------------------------------------------- properties: builder error
\* C13: once an Add*Node call has failed, no later call changes wf.err,
\* registers a node or touches the underlying graph, and Compile returns that
\* error without running the legality checks, emitting an edge or compiling
\* the graph.
C13_BuilderErrorSticky ==
    [][err # "" =>
         /\ err' = err
         /\ nodes' = nodes
         /\ gg' = gg
         /\ compiled'.done => (compiled'.err = err /\ compiled'.processed = {})]_vars

\* The first Add*Node failed, a second Add*Node and an AddEnd followed, and
\* Compile returned the first call's error.
C13_Witness ==
    /\ compiled.done
    /\ err = "addNode a"
    /\ compiled.err = err
    /\ Len(nodeObjs) = 2
    /\ nodeObjs[2].key = "b"
    /\ nodes["b"] = 0
    /\ gg.nodes = {}
    /\ declaredEnd # <<>>
====
